---- MODULE Spec2Model ----
(***************************************************************************)
(* A model of run.py: backtracking parser combinators over a seekable      *)
(* character stream (io.StringIO), and the arithmetic grammar built from   *)
(* them.                                                                   *)
(*                                                                         *)
(* A Python str is a sequence of one-character strings.  A parser is a     *)
(* record (its closure: the kind of parse function and what it closed      *)
(* over); Run applies a parser to a stream at an offset and gives the      *)
(* outcome of the call: how it ended, where it left the offset, and what   *)
(* it returned or raised.  Exceptions are outcomes whose kind is the name  *)
(* of the exception class.  The last argument of every call is the number  *)
(* of Python frames the call may still push; a call with none left raises  *)
(* RecursionError.                                                         *)
(***************************************************************************)
EXTENDS Integers, Sequences, FiniteSets, TLC

VARIABLES stream, pos, called, start, result, budget

vars == <<stream, pos, called, start, result, budget>>

----------------------------------------------------------------------------
(* Bounds *)

\* longest stream content of the combinator specification
MaxLen == 3
\* longest stream content of the grammar specification
MaxExprLen == 5
\* largest minimum_count handed to whitespace()
MaxCount == 3
\* longest stream content of the specification of the grammar on a short
\* call stack
MaxStackLen == 3
\* frames the interpreter allows (sys.getrecursionlimit())
FrameLimit == 14
\* the deepest the driver itself may be on the call stack when it calls a
\* parser
DriverDepth == 3

----------------------------------------------------------------------------
(* Characters.  "sup2" stands for U+00B2 SUPERSCRIPT TWO: str.isdigit()    *)
(* accepts it, int() does not.                                             *)

Alphabet == {"1", "a", " ", "+", "sup2"}
ExprAlphabet == {"1", "2", " ", "+", "-"}

DecimalChars == {"0", "1", "2", "3", "4", "5", "6", "7", "8", "9"}
DigitChars == DecimalChars \cup {"sup2"}
SpaceChars == {" "}
AlphaChars == {"a", "b", "l"}

AllOf(str, chars) == str # <<>> /\ \A i \in 1..Len(str) : str[i] \in chars

\* str.isdigit(), str.isspace(), str.isalpha(), str.isalnum(): false of ''
isdigit(a) == AllOf(a, DigitChars)
isspace(a) == AllOf(a, SpaceChars)
isalpha(a) == AllOf(a, AlphaChars)
isalnum(a) == AllOf(a, AlphaChars \cup DigitChars)

\* the predicates handed to match: the four lambdas of run.py, and
\* lambda a: True as a caller's predicate that accepts anything
Predicates == {"isdigit", "isspace", "isalpha", "isalnum", "any"}

predicate(name, a) ==
    CASE name = "isdigit" -> isdigit(a)
      [] name = "isspace" -> isspace(a)
      [] name = "isalpha" -> isalpha(a)
      [] name = "isalnum" -> isalnum(a)
      [] name = "any" -> TRUE

DigitValue(c) ==
    CASE c = "0" -> 0 [] c = "1" -> 1 [] c = "2" -> 2 [] c = "3" -> 3
      [] c = "4" -> 4 [] c = "5" -> 5 [] c = "6" -> 6 [] c = "7" -> 7
      [] c = "8" -> 8 [] c = "9" -> 9

RECURSIVE DecimalValue(_)
DecimalValue(str) ==
    IF str = <<>> THEN 0
    ELSE 10 * DecimalValue(SubSeq(str, 1, Len(str) - 1)) + DigitValue(str[Len(str)])

\* int(str) of a string of digit characters: raises ValueError unless every
\* character is a decimal digit
IntParses(str) == AllOf(str, DecimalChars)

----------------------------------------------------------------------------
(* The stream: io.StringIO *)

Min(a, b) == IF a < b THEN a ELSE b

\* stream.read(n) at offset p: the next n characters, fewer at the end
Read(s, p, n) == SubSeq(s, p + 1, Min(p + n, Len(s)))

----------------------------------------------------------------------------
(* Python values and the outcome of a call *)

None == [t |-> "None", v |-> <<>>]
StrV(chars) == [t |-> "str", v |-> chars]
IntV(n) == [t |-> "int", v |-> n]
ListV(items) == [t |-> "list", v |-> items]

Return(p, value) ==
    [kind |-> "return", pos |-> p, val |-> value, msg |-> "", detail |-> <<>>]

Raise(exc, p, message, args) ==
    [kind |-> exc, pos |-> p, val |-> None, msg |-> message, detail |-> args]

\* the interpreter refuses a call: no frame left
RecursionError(p) == Raise("RecursionError", p, "maximum recursion depth exceeded", <<>>)

\* a loop that never ends: each turn succeeds and leaves the offset where it was
Hang(p) == Raise("Hang", p, "", <<>>)

----------------------------------------------------------------------------
(* match: the primitive matcher.  frames counts the frames left before the *)
(* call: one for match itself, one for the call of the predicate.          *)

\* match without the seek before SyntaxError is raised
match_no_seek(s, p, pred, peek, frames) ==
    IF frames = 0 THEN RecursionError(p)
    ELSE LET character == Read(s, p, 1)
             after == p + Len(character)
         IN  IF frames = 1 THEN RecursionError(after)
             ELSE IF predicate(pred, character)
                  THEN Return(IF peek THEN p ELSE after, StrV(character))
             ELSE IF character # <<>>
                  THEN Raise("SyntaxError", after,
                             "Could not match {} with the given predicate",
                             <<character>>)
             ELSE Raise("EOFError", after, "", <<>>)

\* match that ignores rollback=True
match_no_peek(s, p, pred, peek, frames) ==
    IF frames = 0 THEN RecursionError(p)
    ELSE LET character == Read(s, p, 1)
             after == p + Len(character)
         IN  IF frames = 1 THEN RecursionError(after)
             ELSE IF predicate(pred, character) THEN Return(after, StrV(character))
             ELSE IF character # <<>>
                  THEN Raise("SyntaxError", p,
                             "Could not match {} with the given predicate",
                             <<character>>)
             ELSE Raise("EOFError", after, "", <<>>)

match(s, p, pred, peek, frames) ==
    IF frames = 0 THEN RecursionError(p)
    ELSE LET position == p
             character == Read(s, p, 1)
             after == p + Len(character)
         IN  IF frames = 1 THEN RecursionError(after)
             ELSE IF predicate(pred, character)
                  THEN Return(IF peek THEN position ELSE after, StrV(character))
             ELSE IF character # <<>>
                  THEN Raise("SyntaxError", position,
                             "Could not match {} with the given predicate",
                             <<character>>)
             ELSE Raise("EOFError", after, "", <<>>)

----------------------------------------------------------------------------
(* Parsers as closures *)

\* lambda stream: match(stream, pred, rollback=peek)
Matcher(pred, peek) == [type |-> "match", pred |-> pred, peek |-> peek]
\* the parser of rollback's docstring: stream.read(1), then raise SyntaxError('test')
raise_error == [type |-> "raise_error"]
rollback(parser) == [type |-> "rollback", parser |-> parser]
concatenation(parsers) == [type |-> "concatenation", parsers |-> parsers]
alternation(parsers) == [type |-> "alternation", parsers |-> parsers]
zero_or_more(parser) == [type |-> "zero_or_more", parser |-> parser]
one_or_more(parser) == [type |-> "one_or_more", parser |-> parser]
maybe(parser) == [type |-> "maybe", parser |-> parser]
number_parse == [type |-> "number.parse"]
number == rollback(number_parse)
name_parse == [type |-> "name.parse"]
name == rollback(name_parse)
keyword_parse(value) == [type |-> "keyword.parse", value |-> value]
keyword(value) == rollback(keyword_parse(value))
whitespace_parse(minimum_count) ==
    [type |-> "whitespace.parse", minimum_count |-> minimum_count]
whitespace(minimum_count) == rollback(whitespace_parse(minimum_count))
\* lambda e: expression(e): the global is looked up when the lambda is called
lambda(global) == [type |-> "lambda", global |-> global]

\* the module's grammar (the globals value, product, sum, expression)
value == alternation(<<number, lambda("expression")>>)
product ==
    concatenation(<<value,
                    zero_or_more(concatenation(
                        <<alternation(<<keyword(<<"*">>), keyword(<<"/">>)>>),
                          value>>))>>)
\* sum with the '*' and '/' of product in place of '+' and '-'
sum_of_products ==
    concatenation(<<value,
                    whitespace(0),
                    zero_or_more(concatenation(
                        <<alternation(<<keyword(<<"*">>), keyword(<<"/">>)>>),
                          whitespace(0),
                          value>>))>>)

sum ==
    concatenation(<<value,
                    whitespace(0),
                    zero_or_more(concatenation(
                        <<alternation(<<keyword(<<"+">>), keyword(<<"-">>)>>),
                          whitespace(0),
                          value>>))>>)
expression == sum

Global(global) ==
    CASE global = "value" -> value
      [] global = "product" -> product
      [] global = "sum" -> sum
      [] global = "expression" -> expression

----------------------------------------------------------------------------
(* The parse functions.  Run(parser, s, p, frames) is the call             *)
(* parser(stream) with the stream holding s at offset p.                   *)

RECURSIVE Run(_, _, _, _)

\* wrapper that re-raises without the seek
wrapper_no_seek(parser, s, p, frames) ==
    IF frames = 0 THEN RecursionError(p)
    ELSE Run(parser, s, p, frames - 1)

\* wrapper with except (SyntaxError, EOFError)
wrapper_catches_eof(parser, s, p, frames) ==
    IF frames = 0 THEN RecursionError(p)
    ELSE LET r == Run(parser, s, p, frames - 1)
         IN  IF r.kind \in {"SyntaxError", "EOFError"} THEN [r EXCEPT !.pos = p] ELSE r

\* rollback's wrapper: only SyntaxError is caught
wrapper(parser, s, p, frames) ==
    IF frames = 0 THEN RecursionError(p)
    ELSE LET start_ == p
             r == Run(parser, s, p, frames - 1)
         IN  IF r.kind = "SyntaxError" THEN [r EXCEPT !.pos = start_] ELSE r

\* the docstring's raise_error
raise_error_parse(s, p, frames) ==
    IF frames = 0 THEN RecursionError(p)
    ELSE Raise("SyntaxError", p + Len(Read(s, p, 1)), "test", <<>>)

\* [parser(stream) for parser in parsers], from the i-th parser on
RECURSIVE concatenation_from(_, _, _, _, _, _)
concatenation_from(parsers, i, s, p, acc, frames) ==
    IF i > Len(parsers) THEN Return(p, ListV(acc))
    ELSE LET r == Run(parsers[i], s, p, frames)
         IN  IF r.kind = "return"
             THEN concatenation_from(parsers, i + 1, s, r.pos, Append(acc, r.val), frames)
             ELSE r

\* concatenation that undoes what its parsers consumed when one of them raises
concatenation_parse_atomic(parsers, s, p, frames) ==
    IF frames = 0 THEN RecursionError(p)
    ELSE LET r == concatenation_from(parsers, 1, s, p, <<>>, frames - 1)
         IN  IF r.kind = "return" THEN r ELSE [r EXCEPT !.pos = p]

concatenation_parse(parsers, s, p, frames) ==
    IF frames = 0 THEN RecursionError(p)
    ELSE concatenation_from(parsers, 1, s, p, <<>>, frames - 1)

\* alternation with except SyntaxError in place of the bare except
RECURSIVE alternation_from_syntax_only(_, _, _, _, _)
alternation_from_syntax_only(parsers, i, s, p, frames) ==
    IF i > Len(parsers) THEN Raise("SyntaxError", p, "Exhausted all parsers", <<>>)
    ELSE LET r == Run(parsers[i], s, p, frames)
         IN  IF r.kind # "SyntaxError" THEN r
             ELSE alternation_from_syntax_only(parsers, i + 1, s, r.pos, frames)

\* alternation that seeks back before it tries the next candidate
RECURSIVE alternation_from_restores(_, _, _, _, _)
alternation_from_restores(parsers, i, s, p, frames) ==
    IF i > Len(parsers) THEN Raise("SyntaxError", p, "Exhausted all parsers", <<>>)
    ELSE LET r == Run(parsers[i], s, p, frames)
         IN  IF r.kind \in {"return", "Hang"} THEN r
             ELSE alternation_from_restores(parsers, i + 1, s, p, frames)

\* for parser in parsers: try: return parser(stream); except: continue
RECURSIVE alternation_from(_, _, _, _, _)
alternation_from(parsers, i, s, p, frames) ==
    IF i > Len(parsers) THEN Raise("SyntaxError", p, "Exhausted all parsers", <<>>)
    ELSE LET r == Run(parsers[i], s, p, frames)
         IN  IF r.kind \in {"return", "Hang"} THEN r
             ELSE alternation_from(parsers, i + 1, s, r.pos, frames)

alternation_parse(parsers, s, p, frames) ==
    IF frames = 0 THEN RecursionError(p)
    ELSE alternation_from(parsers, 1, s, p, frames - 1)

\* zero_or_more with except (SyntaxError, EOFError)
RECURSIVE zero_or_more_result_catches_eof(_, _, _, _, _)
zero_or_more_result_catches_eof(parser, s, p, acc, frames) ==
    LET r == Run(parser, s, p, frames)
    IN  IF r.kind = "return"
        THEN IF r.pos = p THEN Hang(p)
             ELSE zero_or_more_result_catches_eof(parser, s, r.pos, Append(acc, r.val),
                                                  frames)
        ELSE IF r.kind \in {"SyntaxError", "EOFError"} THEN Return(r.pos, ListV(acc))
        ELSE r

\* zero_or_more's generator _result, collected by list()
RECURSIVE zero_or_more_result(_, _, _, _, _)
zero_or_more_result(parser, s, p, acc, frames) ==
    LET r == Run(parser, s, p, frames)
    IN  IF r.kind = "return"
        THEN IF r.pos = p THEN Hang(p)
             ELSE zero_or_more_result(parser, s, r.pos, Append(acc, r.val), frames)
        ELSE IF r.kind = "SyntaxError" THEN Return(r.pos, ListV(acc))
        ELSE r

zero_or_more_parse(parser, s, p, frames) ==
    IF frames < 2 THEN RecursionError(p)
    ELSE zero_or_more_result(parser, s, p, <<>>, frames - 2)

\* one_or_more with the rollback a combinator might be expected to do: the
\* offset goes back to where the failed attempt started
RECURSIVE one_or_more_loop_restores(_, _, _, _, _)
one_or_more_loop_restores(parser, s, p, acc, frames) ==
    LET r == Run(parser, s, p, frames)
    IN  IF r.kind = "return"
        THEN IF r.pos = p THEN Hang(p)
             ELSE one_or_more_loop_restores(parser, s, r.pos, Append(acc, r.val), frames)
        ELSE IF r.kind \in {"SyntaxError", "EOFError"}
        THEN IF Len(acc) = 0
             THEN Raise("SyntaxError", p, "Expected one or more tokens", <<>>)
             ELSE Return(p, ListV(acc))
        ELSE r

\* one_or_more's parse is itself the generator; list() iterates it to its end
RECURSIVE one_or_more_loop(_, _, _, _, _)
one_or_more_loop(parser, s, p, acc, frames) ==
    LET r == Run(parser, s, p, frames)
        count == Len(acc)
    IN  IF r.kind = "return"
        THEN IF r.pos = p THEN Hang(p)
             ELSE one_or_more_loop(parser, s, r.pos, Append(acc, r.val), frames)
        ELSE IF r.kind \in {"SyntaxError", "EOFError"}
        THEN IF count = 0
             THEN Raise("SyntaxError", r.pos, "Expected one or more tokens", <<>>)
             ELSE Return(r.pos, ListV(acc))
        ELSE r

one_or_more_parse(parser, s, p, frames) ==
    IF frames = 0 THEN RecursionError(p)
    ELSE one_or_more_loop(parser, s, p, <<>>, frames - 1)

\* maybe with except SyntaxError only
maybe_parse_syntax_only(parser, s, p, frames) ==
    IF frames = 0 THEN RecursionError(p)
    ELSE LET r == Run(parser, s, p, frames - 1)
         IN  IF r.kind = "SyntaxError" THEN Return(r.pos, None) ELSE r

maybe_parse(parser, s, p, frames) ==
    IF frames = 0 THEN RecursionError(p)
    ELSE LET r == Run(parser, s, p, frames - 1)
         IN  IF r.kind \in {"SyntaxError", "EOFError"} THEN Return(r.pos, None) ELSE r

\* the loop with the failure of the whitespace peek caught: the token ends
\* at the first character that rest rejects
RECURSIVE token_loop_clean_stop(_, _, _, _, _)
token_loop_clean_stop(s, p, rest, acc, frames) ==
    LET m == match(s, p, rest, FALSE, frames)
    IN  IF m.kind = "return"
        THEN token_loop_clean_stop(s, m.pos, rest, acc \o m.val.v, frames)
        ELSE IF m.kind \in {"EOFError", "SyntaxError"} THEN Return(m.pos, StrV(acc))
        ELSE m

\* the while loop of number's and name's generator _result; rest is the
\* predicate of the following characters, acc the characters yielded so far
RECURSIVE token_loop(_, _, _, _, _)
token_loop(s, p, rest, acc, frames) ==
    LET m == match(s, p, rest, FALSE, frames)
    IN  IF m.kind = "return" THEN token_loop(s, m.pos, rest, acc \o m.val.v, frames)
        ELSE IF m.kind = "EOFError" THEN Return(m.pos, StrV(acc))
        ELSE IF m.kind = "SyntaxError"
        THEN LET k == match(s, m.pos, "isspace", TRUE, frames)
             IN  IF k.kind = "return" THEN Return(k.pos, StrV(acc)) ELSE k
        ELSE m

\* "".join(_result()) of number and name: first is the predicate of the
\* first character
token_result(s, p, first, rest, frames) ==
    IF frames = 0 THEN RecursionError(p)
    ELSE LET m == match(s, p, first, FALSE, frames - 1)
         IN  IF m.kind = "return" THEN token_loop(s, m.pos, rest, m.val.v, frames - 1)
             ELSE m

number_parse_call(s, p, frames) ==
    IF frames = 0 THEN RecursionError(p)
    ELSE LET joined == token_result(s, p, "isdigit", "isdigit", frames - 1)
         IN  IF joined.kind # "return" THEN joined
             ELSE IF IntParses(joined.val.v)
                  THEN Return(joined.pos, IntV(DecimalValue(joined.val.v)))
             ELSE Raise("SyntaxError", joined.pos,
                        "invalid literal for int() with base 10: {}", <<joined.val.v>>)

\* name with isalnum as the predicate of the first character too
name_parse_call_alnum_first(s, p, frames) ==
    IF frames = 0 THEN RecursionError(p)
    ELSE token_result(s, p, "isalnum", "isalnum", frames - 1)

name_parse_call(s, p, frames) ==
    IF frames = 0 THEN RecursionError(p)
    ELSE token_result(s, p, "isalpha", "isalnum", frames - 1)

\* keyword that accepts a short read: value.startswith(content)
keyword_parse_call_prefix(value_, s, p, frames) ==
    IF frames = 0 THEN RecursionError(p)
    ELSE LET content == Read(s, p, Len(value_))
             after == p + Len(content)
         IN  IF content = SubSeq(value_, 1, Len(content)) THEN Return(after, StrV(value_))
             ELSE Raise("SyntaxError", after, "Expected {} to match {}",
                        <<content, value_>>)

keyword_parse_call(value_, s, p, frames) ==
    IF frames = 0 THEN RecursionError(p)
    ELSE LET content == Read(s, p, Len(value_))
             after == p + Len(content)
         IN  IF value_ = content THEN Return(after, StrV(value_))
             ELSE Raise("SyntaxError", after, "Expected {} to match {}",
                        <<content, value_>>)

\* whitespace's generator _result: the greedy tail
RECURSIVE whitespace_tail(_, _, _, _)
whitespace_tail(s, p, acc, frames) ==
    LET m == match(s, p, "isspace", FALSE, frames)
    IN  IF m.kind = "return" THEN whitespace_tail(s, m.pos, acc \o m.val.v, frames)
        ELSE IF m.kind \in {"SyntaxError", "EOFError"} THEN Return(m.pos, StrV(acc))
        ELSE m

\* the mandatory part with except SyntaxError only
RECURSIVE whitespace_result_syntax_only(_, _, _, _, _)
whitespace_result_syntax_only(s, p, n, acc, frames) ==
    IF n = 0 THEN whitespace_tail(s, p, acc, frames)
    ELSE LET m == match(s, p, "isspace", FALSE, frames)
         IN  IF m.kind = "return"
             THEN whitespace_result_syntax_only(s, m.pos, n - 1, acc \o m.val.v, frames)
             ELSE IF m.kind = "SyntaxError"
             THEN Raise("SyntaxError", m.pos, "Not enough whitespace to match.", <<>>)
             ELSE m

\* whitespace's generator _result: the mandatory part, n characters to go
RECURSIVE whitespace_result(_, _, _, _, _)
whitespace_result(s, p, n, acc, frames) ==
    IF n = 0 THEN whitespace_tail(s, p, acc, frames)
    ELSE LET m == match(s, p, "isspace", FALSE, frames)
         IN  IF m.kind = "return"
             THEN whitespace_result(s, m.pos, n - 1, acc \o m.val.v, frames)
             ELSE IF m.kind \in {"SyntaxError", "EOFError"}
             THEN Raise("SyntaxError", m.pos, "Not enough whitespace to match.", <<>>)
             ELSE m

whitespace_parse_call(minimum_count, s, p, frames) ==
    IF frames < 2 THEN RecursionError(p)
    ELSE whitespace_result(s, p, minimum_count, <<>>, frames - 2)

Run(parser, s, p, frames) ==
    CASE parser.type = "match" ->
           IF frames = 0 THEN RecursionError(p)
           ELSE match(s, p, parser.pred, parser.peek, frames - 1)
      [] parser.type = "raise_error" -> raise_error_parse(s, p, frames)
      [] parser.type = "rollback" -> wrapper(parser.parser, s, p, frames)
      [] parser.type = "concatenation" -> concatenation_parse(parser.parsers, s, p, frames)
      [] parser.type = "alternation" -> alternation_parse(parser.parsers, s, p, frames)
      [] parser.type = "zero_or_more" -> zero_or_more_parse(parser.parser, s, p, frames)
      [] parser.type = "one_or_more" -> one_or_more_parse(parser.parser, s, p, frames)
      [] parser.type = "maybe" -> maybe_parse(parser.parser, s, p, frames)
      [] parser.type = "number.parse" -> number_parse_call(s, p, frames)
      [] parser.type = "name.parse" -> name_parse_call(s, p, frames)
      [] parser.type = "keyword.parse" -> keyword_parse_call(parser.value, s, p, frames)
      [] parser.type = "whitespace.parse" ->
           whitespace_parse_call(parser.minimum_count, s, p, frames)
      [] parser.type = "lambda" ->
           IF frames = 0 THEN RecursionError(p)
           ELSE Run(Global(parser.global), s, p, frames - 1)

----------------------------------------------------------------------------
(* The state machine: a stream, and a driver that seeks it and calls one   *)
(* parser at a time on it.  called, start and result record the last call: *)
(* the parser, the offset it was invoked at, and its outcome.              *)

StringsUpTo(chars, n) == UNION {[1..k -> chars] : k \in 0..n}

Inputs == StringsUpTo(Alphabet, MaxLen)
ExprInputs == StringsUpTo(ExprAlphabet, MaxExprLen)
StackInputs == StringsUpTo(ExprAlphabet, MaxStackLen)

\* the parsers handed to the combinators: between them they return with and
\* without consuming, and raise SyntaxError and EOFError with the offset
\* restored, untouched and advanced
Pair == concatenation(<<Matcher("isdigit", FALSE), Matcher("isalpha", FALSE)>>)
Parsers ==
    {Matcher("isdigit", FALSE), Matcher("isalpha", TRUE), raise_error,
     keyword(<<"+">>), number, Pair}

\* rollback is also handed parsers that consume several characters and
\* then raise
Triple ==
    concatenation(<<Matcher("isdigit", FALSE), Matcher("isdigit", FALSE),
                    Matcher("isalpha", FALSE)>>)
Unwrapped == {Triple, number_parse, keyword_parse(<<"1", "a">>)}

\* the repetitions are also handed the lexical parsers that consume
\* whenever they return
Progressing ==
    {number, name, keyword(<<"+">>), keyword(<<"1", "a">>), whitespace(1), whitespace(2)}

\* the literals handed to keyword()
Keywords == {<<>>, <<"+">>, <<"a">>, <<"1", "a">>, <<" ", " ">>}

NoCall == [type |-> "none"]
NoResult == Raise("none", 0, "", <<>>)

Idle == called.type = "none"

InitOn(inputs, budgets) ==
    /\ stream \in inputs
    /\ budget \in budgets
    /\ pos = 0
    /\ called = NoCall
    /\ start = 0
    /\ result = NoResult

\* budget is what the interpreter's limit leaves to the calls of the driver
Init == InitOn(Inputs, {FrameLimit})
InitExpr == InitOn(ExprInputs, {FrameLimit})
InitStack == InitOn(StackInputs, (FrameLimit - DriverDepth)..FrameLimit)

\* the driver calls parser(stream) and the call ends with outcome r
Finish(parser, r) ==
    /\ called' = parser
    /\ start' = pos
    /\ result' = r
    /\ pos' = r.pos
    /\ UNCHANGED <<stream, budget>>

\* the outcome of parser(stream) called by the driver
Outcome(parser) == Run(parser, stream, pos, budget)

\* stream.seek(p) by the driver, between two calls
Seek(p) ==
    /\ result.kind # "Hang"
    /\ p # pos \/ ~Idle
    /\ pos' = p
    /\ called' = NoCall
    /\ start' = 0
    /\ result' = NoResult
    /\ UNCHANGED <<stream, budget>>

Match(pred, peek) ==
    /\ Idle
    /\ Finish(Matcher(pred, peek), match(stream, pos, pred, peek, budget))

Rollback(parser) ==
    /\ Idle
    /\ Finish(rollback(parser), Outcome(rollback(parser)))

Concatenation(parsers) ==
    /\ Idle
    /\ Finish(concatenation(parsers), Outcome(concatenation(parsers)))

Alternation(parsers) ==
    /\ Idle
    /\ Finish(alternation(parsers), Outcome(alternation(parsers)))

ZeroOrMore(parser) ==
    /\ Idle
    /\ Finish(zero_or_more(parser), Outcome(zero_or_more(parser)))

OneOrMore(parser) ==
    /\ Idle
    /\ Finish(one_or_more(parser), Outcome(one_or_more(parser)))

Maybe(parser) ==
    /\ Idle
    /\ Finish(maybe(parser), Outcome(maybe(parser)))

Number ==
    /\ Idle
    /\ Finish(number, Outcome(number))

Name ==
    /\ Idle
    /\ Finish(name, Outcome(name))

Keyword(value_) ==
    /\ Idle
    /\ Finish(keyword(value_), Outcome(keyword(value_)))

Whitespace(minimum_count) ==
    /\ Idle
    /\ Finish(whitespace(minimum_count), Outcome(whitespace(minimum_count)))

Value ==
    /\ Idle
    /\ Finish(value, Outcome(value))

Product ==
    /\ Idle
    /\ Finish(product, Outcome(product))

Expression ==
    /\ Idle
    /\ Finish(expression, Outcome(expression))

Next ==
    \/ \E p \in 0..Len(stream) : Seek(p)
    \/ \E pred \in Predicates, peek \in BOOLEAN : Match(pred, peek)
    \/ \E parser \in Parsers \cup Unwrapped : Rollback(parser)
    \/ \E a \in Parsers, b \in Parsers : Concatenation(<<a, b>>)
    \/ \E a \in Parsers, b \in Parsers : Alternation(<<a, b>>)
    \/ \E parser \in Parsers \cup Progressing : ZeroOrMore(parser)
    \/ \E parser \in Parsers \cup Progressing : OneOrMore(parser)
    \/ \E parser \in Parsers : Maybe(parser)
    \/ Number
    \/ Name
    \/ \E value_ \in Keywords : Keyword(value_)
    \/ \E minimum_count \in 0..MaxCount : Whitespace(minimum_count)

Spec == Init /\ [][Next]_vars

\* the grammar, called by the driver on a fresh stream
NextExpr ==
    \/ Value
    \/ Product
    \/ Expression

SpecExpr == InitExpr /\ [][NextExpr]_vars

\* the grammar, called by a driver that is itself at some depth of the
\* call stack
SpecStack == InitStack /\ [][NextExpr]_vars

----------------------------------------------------------------------------
(* Properties *)

\* the outcome parser(stream) has when the driver calls it at offset p
At(parser, p) == Run(parser, stream, p, budget)

Failed(r) == r.kind \in {"SyntaxError", "EOFError"}

\* the successive calls of parser from offset p on, up to the first that
\* does not return or does not move the offset: the values returned, and
\* the outcome of that last call
RECURSIVE Repeated(_, _, _)
Repeated(parser, p, vals) ==
    LET r == At(parser, p)
    IN  IF r.kind = "return" /\ r.pos # p
        THEN Repeated(parser, r.pos, Append(vals, r.val))
        ELSE [vals |-> vals, last |-> r]

\* C1: whatever the input, the starting offset, the predicate and the peek
\* flag, a call of match that raises SyntaxError leaves the offset where it
\* was before the call.
C1_MatchNoMatchRestores ==
    (called.type = "match" /\ result.kind = "SyntaxError") => pos = start

C1_Witness ==
    /\ called.type = "match"
    /\ called.peek
    /\ result.kind = "SyntaxError"
    /\ start > 0
    /\ pos = start

\* C2: rollback(P) returns what P returns and leaves the offset where P left
\* it; when P raises SyntaxError it raises the same SyntaxError with the
\* offset back at its value at invocation; when P raises EOFError it raises
\* EOFError and the offset stays where P left it.
C2_Rollback ==
    called.type = "rollback" =>
        LET r == At(called.parser, start)
        IN  /\ r.kind = "return" => result = r /\ pos = r.pos
            /\ r.kind = "SyntaxError" =>
                   /\ result.kind = "SyntaxError"
                   /\ result.msg = r.msg
                   /\ result.detail = r.detail
                   /\ pos = start
            /\ r.kind = "EOFError" => result.kind = "EOFError" /\ pos = r.pos

\* P consumed two characters and hit the end: the offset is not restored
C2_Witness ==
    /\ called.type = "rollback"
    /\ called.parser = Triple
    /\ At(Triple, start).kind = "EOFError"
    /\ result.kind = "EOFError"
    /\ pos = start + 2

\* C3: keyword(v) either returns v with the offset advanced by len(v), or
\* raises SyntaxError with the offset unchanged; a short read is the second
\* outcome, and EOFError is never raised.
C3_KeywordAtomic ==
    called.type = "rollback" /\ called.parser.type = "keyword.parse" =>
        LET v == called.parser.value
        IN  /\ \/ result.kind = "return" /\ result.val = StrV(v) /\ pos = start + Len(v)
               \/ result.kind = "SyntaxError" /\ pos = start
            /\ Len(stream) - start < Len(v) => result.kind = "SyntaxError"

\* a short read of a prefix of the literal
C3_Witness ==
    /\ called = keyword(<<"1", "a">>)
    /\ start > 0
    /\ start = Len(stream) - 1
    /\ stream[start + 1] = "1"
    /\ result.kind = "SyntaxError"
    /\ pos = start

\* C4: zero_or_more(P) never raises SyntaxError: when P raises SyntaxError
\* it returns the list of P's earlier results (possibly empty); it raises
\* only when P raises EOFError, and then EOFError comes out and no list is
\* returned.
C4_ZeroOrMore ==
    called.type = "zero_or_more" =>
        LET runs == Repeated(called.parser, start, <<>>)
        IN  /\ result.kind # "SyntaxError"
            /\ runs.last.kind = "SyntaxError" =>
                   result = Return(runs.last.pos, ListV(runs.vals))
            /\ runs.last.kind = "EOFError" => result.kind = "EOFError"
            /\ result.kind \notin {"return", "Hang"} =>
                   result.kind = "EOFError" /\ runs.last.kind = "EOFError"

\* P returned twice, then raised EOFError: the two results are lost
C4_Witness ==
    /\ called.type = "zero_or_more"
    /\ Len(Repeated(called.parser, start, <<>>).vals) = 2
    /\ result.kind = "EOFError"
    /\ result.val = None

\* C5: alternation(A, B) returns what the first candidate that returns
\* returned, with the offset where that candidate left it; a candidate that
\* raises SyntaxError or EOFError is passed over and the next one is tried;
\* when every candidate raises, alternation raises
\* SyntaxError('Exhausted all parsers'), never EOFError.
C5_Alternation ==
    called.type = "alternation" =>
        LET a == At(called.parsers[1], start)
            b == At(called.parsers[2], a.pos)
        IN  /\ a.kind = "return" => result = a /\ pos = a.pos
            /\ Failed(a) /\ b.kind = "return" => result = b /\ pos = b.pos
            /\ Failed(a) /\ Failed(b) =>
                   /\ result.kind = "SyntaxError"
                   /\ result.msg = "Exhausted all parsers"
            /\ result.kind # "EOFError"
            /\ At(called.parsers[1], start).kind = "return"
                 /\ At(called.parsers[2], start).kind = "return"
               => result = At(called.parsers[1], start)

\* both candidates would return, with different results: the first wins
C5_Witness ==
    /\ called.type = "alternation"
    /\ At(called.parsers[1], start).kind = "return"
    /\ At(called.parsers[2], start).kind = "return"
    /\ At(called.parsers[1], start) # At(called.parsers[2], start)
    /\ result = At(called.parsers[1], start)

\* the length of the longest run of characters of chars in the stream from
\* offset p on
RunLength(chars, p) ==
    CHOOSE k \in 0..(Len(stream) - p) :
        /\ \A i \in 1..k : stream[p + i] \in chars
        /\ p + k = Len(stream) \/ stream[p + k + 1] \notin chars

\* the run of k characters at offset p is followed by the end of the stream
\* or by a character of chars
FollowedBy(chars, p, k) == p + k = Len(stream) \/ stream[p + k + 1] \in chars

Power10(n) == IF n = 0 THEN 1 ELSE IF n = 1 THEN 10 ELSE IF n = 2 THEN 100
              ELSE IF n = 3 THEN 1000 ELSE IF n = 4 THEN 10000 ELSE 100000

\* the number written by the k decimal digits at offset p, most significant
\* first
RECURSIVE Written(_, _)
Written(p, k) ==
    IF k = 0 THEN 0
    ELSE DigitValue(stream[p + 1]) * Power10(k - 1) + Written(p + 1, k - 1)

\* C6: number() at an offset where the longest run of decimal digits has
\* k >= 1 digits and is followed by whitespace or by the end of the input
\* returns the integer the run writes and leaves the offset advanced by
\* exactly k: the whitespace is peeked, not consumed.
C6_NumberCleanBoundary ==
    called = number =>
        LET k == RunLength(DecimalChars, start)
        IN  k >= 1 /\ FollowedBy(SpaceChars, start, k) =>
                /\ result = Return(start + k, IntV(Written(start, k)))
                /\ pos = start + k

\* two digits, then a whitespace character that stays unread
C6_Witness ==
    /\ called = number
    /\ RunLength(DecimalChars, start) = 2
    /\ start + 2 < Len(stream)
    /\ stream[start + 3] \in SpaceChars
    /\ result.kind = "return"
    /\ result.val = IntV(11)
    /\ pos = start + 2

\* C7: number() at an offset where a run of one or more digits is followed
\* at once by a character that is neither a digit nor whitespace raises
\* SyntaxError, returning none of the digits, and the offset is back at its
\* value at invocation.
C7_NumberBoundaryDefect ==
    called = number =>
        LET k == RunLength(DigitChars, start)
        IN  /\ k >= 1
            /\ start + k < Len(stream)
            /\ stream[start + k + 1] \notin SpaceChars
            => result.kind = "SyntaxError" /\ pos = start

\* '1+' after one skipped character
C7_Witness ==
    /\ called = number
    /\ start = 1
    /\ Len(stream) = 3
    /\ SubSeq(stream, 2, 3) = <<"1", "+">>
    /\ result.kind = "SyntaxError"
    /\ pos = start

\* C8: whitespace(n) at an offset followed by a longest run of m whitespace
\* characters raises SyntaxError('Not enough whitespace to match.') with the
\* offset unchanged when m < n, whether a character or the end of the input
\* cut the run short; otherwise it returns the m characters and leaves the
\* offset advanced by exactly m.  whitespace(0) never fails.
C8_Whitespace ==
    called.type = "rollback" /\ called.parser.type = "whitespace.parse" =>
        LET n == called.parser.minimum_count
            m == RunLength(SpaceChars, start)
        IN  /\ m < n =>
                /\ result.kind = "SyntaxError"
                /\ result.msg = "Not enough whitespace to match."
                /\ pos = start
            /\ m >= n =>
                /\ result = Return(start + m, StrV(SubSeq(stream, start + 1, start + m)))
                /\ pos = start + m
            /\ n = 0 => result.kind = "return"

\* whitespace(3) on two spaces
C8_Witness ==
    /\ called = whitespace(3)
    /\ stream = <<" ", " ">>
    /\ start = 0
    /\ result.kind = "SyntaxError"
    /\ pos = 0

\* C9: one_or_more(P) iterated to its end raises
\* SyntaxError('Expected one or more tokens') when P's first call raises
\* SyntaxError or EOFError, and the offset is then where that call of P left
\* it; when P's first call returns, it yields the results P returned before
\* its first SyntaxError or EOFError, at least one, and does not raise.
C9_OneOrMore ==
    called.type = "one_or_more" =>
        LET first == At(called.parser, start)
            runs == Repeated(called.parser, start, <<>>)
        IN  /\ Failed(first) =>
                /\ result.kind = "SyntaxError"
                /\ result.msg = "Expected one or more tokens"
                /\ pos = first.pos
            /\ first.kind = "return" /\ Failed(runs.last) =>
                /\ runs.vals # <<>>
                /\ result = Return(runs.last.pos, ListV(runs.vals))

\* P's first call consumed a character and raised
C9_Witness ==
    /\ called.type = "one_or_more"
    /\ Failed(At(called.parser, start))
    /\ At(called.parser, start).pos = start + 1
    /\ result.kind = "SyntaxError"
    /\ pos = start + 1

\* the stream is a b c d e with a and e decimal digits, b whitespace, d
\* whitespace or nothing, and c one of '+' and '-'; i, j, l are the lengths
\* of a, b and d
SumForm(i, j, l) ==
    /\ i >= 1 /\ j >= 1 /\ l >= 0
    /\ Len(stream) > i + j + 1 + l
    /\ \A n \in 1..i : stream[n] \in DecimalChars
    /\ \A n \in (i + 1)..(i + j) : stream[n] \in SpaceChars
    /\ stream[i + j + 1] \in {"+", "-"}
    /\ \A n \in (i + j + 2)..(i + j + 1 + l) : stream[n] \in SpaceChars
    /\ \A n \in (i + j + l + 2)..Len(stream) : stream[n] \in DecimalChars

\* C10: expression at offset 0 of an input <integer a><whitespace w1><'+' or
\* '-'><whitespace w2><integer b> that ends the input returns the nested
\* list [a, w1, [[op, w2, b]]] of the values matched, with nothing added or
\* subtracted, and consumes the whole input.  w1 is at least one character
\* (with none, a is followed by the operator: the case of C7).
C10_ExpressionShape ==
    called = expression /\ start = 0 =>
        \A i \in 1..Len(stream), j \in 1..Len(stream), l \in 0..Len(stream) :
            SumForm(i, j, l) =>
                LET o == i + j + 1
                    a == IntV(Written(0, i))
                    w1 == StrV(SubSeq(stream, i + 1, i + j))
                    op == StrV(<<stream[o]>>)
                    w2 == StrV(SubSeq(stream, o + 1, o + l))
                    b == IntV(Written(o + l, Len(stream) - o - l))
                IN  /\ result = Return(Len(stream),
                                       ListV(<<a, w1, ListV(<<ListV(<<op, w2, b>>)>>)>>))
                    /\ pos = Len(stream)

\* '1 + 2' gives [1, ' ', [['+', ' ', 2]]]
C10_Witness ==
    /\ called = expression
    /\ stream = <<"1", " ", "+", " ", "2">>
    /\ result.kind = "return"
    /\ result.val = ListV(<<IntV(1), StrV(<<" ">>),
                            ListV(<<ListV(<<StrV(<<"+">>), StrV(<<" ">>), IntV(2)>>)>>)>>)
    /\ pos = 5

\* the driver called value, or expression, whose first parser is value
GrammarCall == called = value \/ called = expression

C12_Maybe ==
    called.type = "maybe" =>
        LET r == At(called.parser, start)
        IN  /\ r.kind = "return" => result = r /\ pos = r.pos
            /\ Failed(r) => result = Return(r.pos, None) /\ pos = r.pos
            /\ result.kind = "return"

\* P consumed a character and raised EOFError: None, and no second attempt
C12_Witness ==
    /\ called.type = "maybe"
    /\ At(called.parser, start).kind = "EOFError"
    /\ At(called.parser, start).pos = start + 1
    /\ result = Return(start + 1, None)

\* C13 as stated: the second candidate of alternation(A, B) is called at the
\* offset alternation was called at, however A failed.
C13_SameOffset ==
    called.type = "alternation" /\ Failed(At(called.parsers[1], start)) =>
        LET b == At(called.parsers[2], start)
        IN  /\ b.kind = "return" => result = b
            /\ Failed(b) => pos = b.pos

\* C13, amended: the second candidate of alternation(A, B) is called at the
\* offset A's failure left; that is the offset alternation was called at
\* when A left the offset unchanged.
C13_OffsetLeftByFailure ==
    called.type = "alternation" /\ Failed(At(called.parsers[1], start)) =>
        LET a == At(called.parsers[1], start)
            b == At(called.parsers[2], a.pos)
        IN  /\ b.kind = "return" => result = b
            /\ Failed(b) => pos = b.pos
            /\ pos >= a.pos

\* A consumed a character and raised; B returns from there, and would have
\* raised at the offset of the call
C13_Witness ==
    /\ called.type = "alternation"
    /\ Failed(At(called.parsers[1], start))
    /\ At(called.parsers[1], start).pos = start + 1
    /\ Failed(At(called.parsers[2], start))
    /\ result.kind = "return"
    /\ result = At(called.parsers[2], start + 1)

\* C14: concatenation(A, B) calls A, then B where A left the offset, and
\* returns the list of their results in that order; the first of them that
\* raises ends the call with the exception it raised, B is not called after
\* A raised, and what A consumed stays consumed: the offset is where the
\* parser that raised left it.
C14_Concatenation ==
    called.type = "concatenation" /\ Len(called.parsers) = 2 =>
        LET a == At(called.parsers[1], start)
            b == At(called.parsers[2], a.pos)
        IN  /\ a.kind # "return" => result = a /\ pos = a.pos
            /\ a.kind = "return" /\ b.kind = "return" =>
                   /\ result = Return(b.pos, ListV(<<a.val, b.val>>))
                   /\ pos = b.pos
            /\ a.kind = "return" /\ b.kind # "return" => result = b /\ pos = b.pos

\* A consumed, then B consumed and raised: nothing is given back
C14_Witness ==
    /\ called.type = "concatenation"
    /\ Len(called.parsers) = 2
    /\ At(called.parsers[1], start).kind = "return"
    /\ At(called.parsers[1], start).pos > start
    /\ result.kind = "SyntaxError"
    /\ pos > At(called.parsers[1], start).pos

\* C15: match on an exhausted stream raises EOFError and leaves the offset
\* unchanged, whatever the predicate and the peek flag; it never returns.
C15_ExhaustedIsEOF ==
    called.type = "match" /\ start = Len(stream) =>
        result.kind = "EOFError" /\ pos = start

AlnumChars == AlphaChars \cup DigitChars

\* C16: name() at an offset where the longest run of alphanumeric characters
\* has k >= 1 characters, starts with an alphabetic one and is followed by
\* whitespace or the end of the input returns the run and leaves the offset
\* advanced by exactly k; it raises SyntaxError and leaves the offset
\* unchanged when the first character is not alphabetic, and when the run
\* is followed at once by a character that is not whitespace.
C16_Name ==
    called = name /\ start < Len(stream) =>
        LET k == RunLength(AlnumChars, start)
            alphabetic == stream[start + 1] \in AlphaChars
        IN  /\ alphabetic /\ FollowedBy(SpaceChars, start, k) =>
                /\ result = Return(start + k, StrV(SubSeq(stream, start + 1, start + k)))
                /\ pos = start + k
            /\ ~alphabetic => result.kind = "SyntaxError" /\ pos = start
            /\ alphabetic /\ ~FollowedBy(SpaceChars, start, k) =>
                   result.kind = "SyntaxError" /\ pos = start

\* 'a1' before a whitespace character that stays unread
C16_Witness ==
    /\ called = name
    /\ stream = <<"a", "1", " ">>
    /\ start = 0
    /\ result = Return(2, StrV(<<"a", "1">>))
    /\ pos = 2

\* the driver called number(), name(), keyword(v) or whitespace(n)
LexicalCall ==
    /\ called.type = "rollback"
    /\ called.parser.type \in
           {"number.parse", "name.parse", "keyword.parse", "whitespace.parse"}

\* C17: a call of number(), name(), keyword(v) or whitespace(n) that raises
\* ends at the offset it started from, whichever exception it raised;
\* number() and name() raise EOFError only on an exhausted stream, keyword
\* and whitespace never.
C17_LexicalFailureRestores ==
    LexicalCall /\ result.kind # "return" =>
        /\ Failed(result)
        /\ pos = start
        /\ result.kind = "EOFError" =>
               /\ called.parser.type \in {"number.parse", "name.parse"}
               /\ start = Len(stream)

\* number() read two digits before it raised
C17_Witness ==
    /\ called = number
    /\ RunLength(DigitChars, start) = 2
    /\ result.kind = "SyntaxError"
    /\ pos = start

Repetition == called.type \in {"zero_or_more", "one_or_more"}

\* C19: zero_or_more(P) and one_or_more(P) iterated to its end come to an
\* end on every input when P is number(), name(), keyword(v) with v not
\* empty, or whitespace(n) with n >= 1: wherever P returns it has moved the
\* offset forward, and never past the end of the input.
C19_RepetitionEnds ==
    Repetition /\ called.parser \in Progressing =>
        /\ result.kind \in {"return", "SyntaxError", "EOFError"}
        /\ \A p \in 0..Len(stream) :
               LET r == At(called.parser, p)
               IN  r.kind = "return" => p < r.pos /\ r.pos <= Len(stream)

\* three turns of keyword('+') on '+++'
C19_Witness ==
    /\ called = zero_or_more(keyword(<<"+">>))
    /\ stream = <<"+", "+", "+">>
    /\ start = 0
    /\ result.kind = "return"
    /\ Len(result.val.v) = 3
    /\ pos = 3

\* C20: on a bounded call stack, expression at an offset where the integer
\* literal fails ends with SyntaxError('Exhausted all parsers') and the
\* offset unchanged.
C20_EndsWithOffsetUnchanged ==
    called = expression /\ At(number, start).kind # "return" =>
        /\ result.kind = "SyntaxError"
        /\ result.msg = "Exhausted all parsers"
        /\ pos = start

====
